---- MODULE Spec2Model ----
(***************************************************************************)
(* Model of the data_collecting package: Connection.receive (framed read   *)
(* with the idle / max-message-delay timers and the receive cache) and     *)
(* BaseDataCollector.run (the connect / collect / cooldown loop), run on   *)
(* its thread by Runner.run through collect_forever().                     *)
(*                                                                         *)
(* Time is discrete.  Code runs in zero time; time passes only while the   *)
(* collector thread is blocked in socket.recv() or in Event.wait().  The   *)
(* code only uses differences of time.time(): the clock `now` is           *)
(* time.time() counted from the start of the current receive() call and,   *)
(* in a call that sets start_time when its first chunk arrives, from       *)
(* start_time on.                                                          *)
(***************************************************************************)
EXTENDS Integers, Sequences, FiniteSets, TLC

(* ---------------------------- bounds ---------------------------------- *)
\* message_period, handed to connect() as recv_timeout (idle timeout)
recv_timeout == 4
\* max_msg_delay of the collector and of its connections
max_msg_delay == 2
\* reconnect_period: the cooldown between two connect attempts
reconnect_period == 2
\* connect_timeout of connect(): the timeout the new socket is created with
connect_timeout == 3
\* the producer sends at most MaxFrames frames on one connection
MaxFrames == 2

(* ------------------------- bytes and frames --------------------------- *)
\* Python's None
None == -1

\* payloads the producer may send; "xff" is a byte that is not valid UTF-8
AllPayloads == { <<>>, <<"xff">>, <<"a", "b">> }

\* values of the end_marker property: the default b'\r\n' and two overrides
DefaultEndMarker == <<"r", "n">>
EndMarkers == { <<"n">>, DefaultEndMarker, <<"r", "n", "n">> }

\* bytes.find(end): lowest 0-based index of end in data, or -1
Find(data, end) ==
    LET hits == { i \in 0..(Len(data) - Len(end)) :
                      SubSeq(data, i + 1, i + Len(end)) = end }
    IN  IF hits = {} THEN -1
        ELSE CHOOSE i \in hits : \A j \in hits : i <= j

\* data[i:]
SliceFrom(data, i) ==
    IF i >= Len(data) THEN <<>> ELSE SubSeq(data, i + 1, Len(data))

\* data[0:i]
SliceTo(data, i) ==
    IF i <= 0 THEN <<>> ELSE SubSeq(data, 1, i)

\* bytes.decode(): fails on a byte that is not valid UTF-8
Decodable(data) == \A i \in 1..Len(data) : data[i] # "xff"

\* the byte stream of a list of frames: payload1 + end + payload2 + end ...
RECURSIVE Join(_, _)
Join(frames, end) ==
    IF frames = <<>> THEN <<>>
    ELSE Head(frames) \o end \o Join(Tail(frames), end)

\* lists of at most n payloads
RECURSIVE FrameLists(_)
FrameLists(n) ==
    IF n = 0 THEN { <<>> }
    ELSE FrameLists(n - 1) \cup
         { <<p>> \o fl : p \in AllPayloads,
                        fl \in { l \in FrameLists(n - 1) : Len(l) = n - 1 } }

IsPrefix(s, t) == Len(s) <= Len(t) /\ SubSeq(t, 1, Len(s)) = s
IsSuffix(s, t) == Len(s) <= Len(t) /\ SliceFrom(t, Len(t) - Len(s)) = s

Min(a, b) == IF a <= b THEN a ELSE b

(* ----------------------------- state ---------------------------------- *)
VARIABLES
    pc,            \* position of the collector thread in run()
    to_stop,       \* BaseDataCollector._to_stop (threading.Event)
    was_stopped,   \* local flag of run()
    conn,          \* the socket of the current Connection: none/open/closed
    end_marker,    \* value of the end_marker property of this collector
    sent,          \* frames the producer sends on the current connection
    pos,           \* number of bytes of that stream already read by recv()
    recv_cache,    \* Connection._recv_cache
    data,          \* local `data` of receive(); the frame once it returned
    start_time,    \* local `start_time` of receive()
    sock_timeout,  \* timeout set on the socket (0 = non-blocking)
    now,           \* time.time(), from the start of the call or start_time
    recv_at,       \* value of `now` when the pending recv() was entered
    waited,        \* time spent in the pending Event.wait()
    got,           \* frames receive() returned on the current connection
    exc,           \* last exception raised
    exc_src,       \* where it was raised
    outcome,       \* what the on_data_received call just made did
    resumed,       \* the running receive() started with a non-empty cache
    first_chunk_at,\* `now` when the first chunk of this receive() arrived
    read_any,      \* a recv() of the running receive() has returned bytes
    split,         \* the end marker just found came in two chunks
    hook_calls,    \* calls of on_connection_established on the connection
    handled,       \* frames passed to on_data_received on the connection
    closes,        \* calls of close() on the connection
    runner         \* position of the main thread in Runner.run()

vars == << pc, to_stop, was_stopped, conn, end_marker, sent, pos, recv_cache,
           data, start_time, sock_timeout, now, recv_at, waited, got, exc,
           exc_src, outcome, resumed, first_chunk_at, read_any, split,
           hook_calls, handled, closes, runner >>

\* variables of one Connection and of the receive() call running on it
connVars == << conn, sent, pos, recv_cache, data, start_time, sock_timeout,
               now, recv_at, got, resumed, first_chunk_at, read_any, split,
               hook_calls, handled, closes >>

\* the bytes the producer sends on the current connection
Stream == Join(sent, end_marker)
\* the bytes recv() has returned so far on the current connection
Delivered == SliceTo(Stream, pos)

Init ==
    /\ pc = "loop"
    /\ to_stop = FALSE
    /\ was_stopped = FALSE
    /\ conn = "none"
    /\ end_marker \in EndMarkers
    /\ sent = <<>>
    /\ pos = 0
    /\ recv_cache = <<>>
    /\ data = <<>>
    /\ start_time = None
    /\ sock_timeout = None
    /\ now = 0
    /\ recv_at = 0
    /\ waited = 0
    /\ got = <<>>
    /\ exc = "none"
    /\ exc_src = "none"
    /\ outcome = "none"
    /\ resumed = FALSE
    /\ first_chunk_at = None
    /\ read_any = FALSE
    /\ split = FALSE
    /\ hook_calls = 0
    /\ handled = <<>>
    /\ closes = 0
    /\ runner = "collect_forever"

(* ------------------------ exception handling -------------------------- *)
\* subclasses of OSError among the exceptions of the model
OSErrors == { "herror", "gaierror", "timeout", "refused", "aborted",
              "oserror", "blockingio" }

\* the except clauses around `yield connection` in _connect()
ConnectCatches(e) == e \in { "aborted", "timeout" } \cup OSErrors

\* mutant of RunCatches: an invalid address is retried like a refusal
RunCatches_RetriesAll(e) ==
    IF e \in { "herror", "gaierror", "timeout", "refused" } THEN "retry"
    ELSE "propagate"

\* the except clauses of run(): "break", "retry" (falls to the cooldown)
\* or "propagate"
RunCatches(e) ==
    IF e \in { "herror", "gaierror" } THEN "break"
    ELSE IF e = "timeout" THEN "retry"
    ELSE IF e = "refused" THEN "retry"
    ELSE "propagate"

\* _collect() and the receive() it called are left, by a return or by an
\* exception: their locals are gone
Forget ==
    /\ data' = <<>>
    /\ start_time' = None
    /\ now' = 0
    /\ recv_at' = 0
    /\ resumed' = FALSE
    /\ first_chunk_at' = None
    /\ read_any' = FALSE
    /\ split' = FALSE

\* mutant of Raise: the connection is closed only when the exception comes
\* from the body of the with block
Raise_LeaksOutsideBody(e, src, opened, inBody) ==
    /\ exc' = e
    /\ exc_src' = src
    /\ conn' = IF opened /\ inBody THEN "closed" ELSE conn
    /\ closes' = IF opened /\ inBody THEN closes + 1 ELSE closes
    /\ sent' = <<>>
    /\ pos' = 0
    /\ got' = <<>>
    /\ handled' = <<>>
    /\ Forget
    /\ LET r == IF inBody /\ ConnectCatches(e) THEN "retry"
                ELSE RunCatches(e)
       IN  pc' = CASE r = "retry" -> "wait"
                   [] r = "break" -> "done"
                   [] OTHER -> "raised"
    /\ waited' = 0

\* An exception e raised at `src`.  inBody: raised inside the body of
\* `with self._connect() as connection`, so the try of _connect() sees it.
\* opened: a Connection exists, and `with connect(...)` closes it.  The
\* closed connection is gone, and with it the stream of the producer.
Raise(e, src, opened, inBody) ==
    /\ exc' = e
    /\ exc_src' = src
    /\ conn' = IF opened THEN "closed" ELSE conn
    /\ closes' = IF opened THEN closes + 1 ELSE closes
    /\ sent' = <<>>
    /\ pos' = 0
    /\ got' = <<>>
    /\ handled' = <<>>
    /\ Forget
    /\ LET r == IF inBody /\ ConnectCatches(e) THEN "retry"
                ELSE RunCatches(e)
       IN  pc' = CASE r = "retry" -> "wait"
                   [] r = "break" -> "done"
                   [] OTHER -> "raised"
    /\ waited' = 0

(* --------------------------- the supervisor --------------------------- *)
\* stop(): self._to_stop.set(), from any thread, at any time
Stop ==
    /\ to_stop' = TRUE
    /\ UNCHANGED << pc, was_stopped, end_marker, connVars, waited, exc,
                    exc_src, outcome, runner >>

\* what connect() (socket.create_connection) can do
ConnectOutcomes == { "ok", "herror", "gaierror", "timeout", "refused",
                     "oserror" }

\* run(), top of `while not was_stopped`: `with self._connect()` up to and
\* including connect(); a failure of connect() reaches the excepts of run()
Connect(o) ==
    /\ pc = "loop"
    /\ ~was_stopped
    /\ recv_cache' = <<>>
    /\ outcome' = "none"
    /\ IF o = "ok"
       THEN /\ conn' = "open"
            /\ sent' \in FrameLists(MaxFrames)
            /\ pos' = 0
            /\ got' = <<>>
            /\ handled' = <<>>
            /\ hook_calls' = 0
            /\ closes' = 0
            /\ UNCHANGED << data, start_time, now, recv_at, resumed,
                            first_chunk_at, read_any, split >>
            /\ sock_timeout' = connect_timeout
            /\ pc' = "established"
            /\ exc' = "none"
            /\ exc_src' = "none"
            /\ waited' = 0
       ELSE /\ Raise(o, "connect", FALSE, FALSE)
            /\ sock_timeout' = None
            /\ UNCHANGED hook_calls
    /\ UNCHANGED << to_stop, was_stopped, end_marker, runner >>

\* run(): the loop ends once the cooldown wait reported the stop
RunExit ==
    /\ pc = "loop"
    /\ was_stopped
    /\ pc' = "done"
    /\ UNCHANGED << to_stop, was_stopped, end_marker, connVars, waited, exc,
                    exc_src, outcome, runner >>

\* what on_connection_established (a subclass hook) can do
HookOutcomes == { "ok", "timeout", "oserror", "apperror" }

\* mutant of OnConnectionEstablished: _connect() yields the connection
\* without calling the hook
OnConnectionEstablished_Skipped(o) ==
    /\ pc = "established"
    /\ o = "ok"
    /\ pc' = "check"
    /\ UNCHANGED << to_stop, was_stopped, end_marker, connVars, waited, exc,
                    exc_src, outcome, runner >>

\* _connect(): self.on_connection_established(connection); the call is
\* inside `with connect(...)` and outside the try
OnConnectionEstablished(o) ==
    /\ pc = "established"
    /\ hook_calls' = hook_calls + 1
    /\ IF o = "ok"
       THEN /\ pc' = "check"
            /\ UNCHANGED << conn, sent, pos, got, exc, exc_src, waited,
                            data, start_time, now, recv_at, resumed,
                            first_chunk_at, read_any, split, handled,
                            closes >>
       ELSE Raise(o, "hook", TRUE, FALSE)
    /\ UNCHANGED << to_stop, was_stopped, end_marker, recv_cache,
                    sock_timeout, outcome, runner >>

\* run(): `while not self._to_stop.is_set()`; when the flag is set the with
\* block is left, which closes the connection, and run() goes to the wait
CheckStop ==
    /\ pc = "check"
    /\ IF to_stop
       THEN /\ conn' = "closed"
            /\ closes' = closes + 1
            /\ sent' = <<>>
            /\ pos' = 0
            /\ got' = <<>>
            /\ handled' = <<>>
            /\ pc' = "wait"
            /\ waited' = 0
       ELSE /\ pc' = "collect"
            /\ UNCHANGED << conn, closes, sent, pos, got, handled, waited >>
    /\ outcome' = "none"
    /\ UNCHANGED << to_stop, was_stopped, end_marker, recv_cache, data,
                    start_time, sock_timeout, now, recv_at, exc, exc_src,
                    resumed, first_chunk_at, read_any, split, hook_calls,
                    runner >>

(* --------------------------- Connection.receive ----------------------- *)
\* mutant of Residual: the end marker is left in the cache
Residual_KeepsMarker(d, end_index) == SliceFrom(d, end_index)

\* mutant of Residual: one byte too few is skipped
Residual_OffByOne(d, end_index) == SliceFrom(d, end_index + 1)

\* self._recv_cache = data[end_index + 2:]
Residual(d, end_index) == SliceFrom(d, end_index + 2)

\* mutant of Budget: every chunk gets the whole max_msg_delay again
Budget_NoShrink(start, t) == max_msg_delay

\* self._max_msg_delay - time_elapsed
Budget(start, t) == max_msg_delay - (t - start)

\* mutant of LoopHead: receive() reads from the socket before it looks at
\* the bytes it took from the cache
LoopHead_ReadFirst(d, t) ==
    LET end_index == Find(d, end_marker)
    IN  IF end_index # -1 /\ pc # "collect"
        THEN /\ recv_cache' = Residual(d, end_index)
             /\ data' = SliceTo(d, end_index)
             /\ got' = Append(got, SliceTo(d, end_index))
             /\ sock_timeout' = recv_timeout
             /\ pc' = "on_data"
        ELSE /\ recv_cache' = <<>>
             /\ data' = d
             /\ got' = got
             /\ sock_timeout' = t
             /\ pc' = "recv"

\* mutant of LoopHead: the cache is not cleared when its bytes are taken
LoopHead_KeepsCache(d, t) ==
    LET end_index == Find(d, end_marker)
    IN  IF end_index # -1
        THEN /\ recv_cache' = Residual(d, end_index)
             /\ data' = SliceTo(d, end_index)
             /\ got' = Append(got, SliceTo(d, end_index))
             /\ sock_timeout' = recv_timeout
             /\ pc' = "on_data"
        ELSE /\ recv_cache' = recv_cache
             /\ data' = d
             /\ got' = got
             /\ sock_timeout' = t
             /\ pc' = "recv"

\* head of the loop of receive() on the buffer d, the socket timeout being
\* t: either the frame is complete and receive() returns it (restoring the
\* timeout on the way out), or the thread blocks in recv()
LoopHead(d, t) ==
    LET end_index == Find(d, end_marker)
    IN  IF end_index # -1
        THEN /\ recv_cache' = Residual(d, end_index)
             /\ data' = SliceTo(d, end_index)
             /\ got' = Append(got, SliceTo(d, end_index))
             /\ sock_timeout' = recv_timeout
             /\ pc' = "on_data"
        ELSE /\ recv_cache' = <<>>
             /\ data' = d
             /\ got' = got
             /\ sock_timeout' = t
             /\ pc' = "recv"

\* _collect(): connection.receive(end=self.end_marker), from the entry of
\* receive() to the first recv() or to the return
Receive ==
    /\ pc = "collect"
    /\ now' = 0
    /\ recv_at' = 0
    /\ start_time' = IF recv_cache # <<>> THEN 0 ELSE None
    /\ resumed' = (recv_cache # <<>>)
    /\ first_chunk_at' = None
    /\ read_any' = FALSE
    /\ split' = FALSE
    /\ LoopHead(recv_cache, recv_timeout)
    /\ UNCHANGED << to_stop, was_stopped, conn, end_marker, sent, pos,
                    waited, exc, exc_src, outcome, hook_calls, handled,
                    closes, runner >>

\* largest chunk of one read: recv(512)
RecvSize == 512

\* a failure leaves receive(): _keep_timeout restores the timeout on the
\* way out
ReceiveFails(e, src) ==
    /\ Raise(e, src, TRUE, TRUE)
    /\ sock_timeout' = recv_timeout
    /\ UNCHANGED << recv_cache, hook_calls >>

\* the first end marker of the buffer d began in the n bytes that were
\* there before the last read and ends in the bytes of that read
Straddles(d, n) ==
    LET end_index == Find(d, end_marker)
    IN  end_index # -1 /\ end_index < n /\ n < end_index + Len(end_marker)

\* recv() returns the next k bytes of the stream; receive() appends them,
\* updates the timeout and goes back to the head of its loop
RecvChunk(k) ==
    /\ pc = "recv"
    /\ k \in 1..Min(Len(Stream) - pos, RecvSize)
    /\ LET d == data \o SubSeq(Stream, pos + 1, pos + k)
           read == /\ pos' = pos + k
                   /\ read_any' = TRUE
                   /\ split' = Straddles(d, Len(data))
                   /\ UNCHANGED << conn, sent, resumed, waited, exc,
                                   exc_src, hook_calls, handled, closes >>
       IN  IF start_time = None
           THEN \* start_time = time.time(): the clock is counted from here
                /\ now' = 0
                /\ start_time' = 0
                /\ first_chunk_at' = 0
                /\ recv_at' = 0
                /\ LoopHead(d, max_msg_delay)
                /\ read
           ELSE IF Budget(start_time, now) < 0
                THEN ReceiveFails("valueerror", "timer")
                ELSE /\ LoopHead(d, Budget(start_time, now))
                     /\ recv_at' = now
                     /\ read
                     /\ UNCHANGED << now, start_time, first_chunk_at >>
    /\ UNCHANGED << to_stop, was_stopped, end_marker, outcome, runner >>

\* recv() fails, with the exception e raised at src
RecvRaises(e, src) ==
    /\ ReceiveFails(e, src)
    /\ UNCHANGED << to_stop, was_stopped, end_marker, outcome, runner >>

\* the blocking recv() runs into the timeout of the socket
RecvTimeout ==
    /\ pc = "recv"
    /\ sock_timeout > 0
    /\ now - recv_at = sock_timeout
    /\ RecvRaises("timeout", "timer")

\* the socket is non-blocking (timeout 0) and nothing is there to read
RecvWouldBlock ==
    /\ pc = "recv"
    /\ sock_timeout = 0
    /\ RecvRaises("blockingio", "timer")

\* the producer closed after its last byte: recv() returns b'' and
\* receive() raises ConnectionAbortedError
RecvClosed ==
    /\ pc = "recv"
    /\ pos = Len(Stream)
    /\ RecvRaises("aborted", "peer")

\* the transport fails (reset, broken pipe): recv() raises an OSError
RecvError ==
    /\ pc = "recv"
    /\ RecvRaises("oserror", "peer")

(* ------------------------------ _collect ------------------------------ *)
\* what on_data_received (a subclass hook) can do
HandlerOutcomes == { "ok", "corrupted", "oserror", "apperror" }

\* _collect(): self.on_data_received(connection, data) and its except
\* clause, whose log line decodes the frame
OnDataReceived(o) ==
    /\ pc = "on_data"
    /\ outcome' = o
    /\ IF o = "ok" \/ (o = "corrupted" /\ Decodable(data))
       THEN /\ pc' = "check"
            /\ handled' = Append(handled, data)
            /\ Forget
            /\ UNCHANGED << conn, closes, sent, pos, got, exc, exc_src,
                            waited >>
       ELSE IF o = "corrupted"
            THEN Raise("unicode", "log", TRUE, TRUE)
            ELSE Raise(o, "handler", TRUE, TRUE)
    /\ UNCHANGED << to_stop, was_stopped, end_marker, recv_cache,
                    sock_timeout, hook_calls, runner >>

(* ------------------------- cooldown and time -------------------------- *)
\* Event.wait(timeout) keeps blocking: the flag is clear and the timeout
\* has not run out
WaitBlocks(flag, w) == ~flag /\ w < reconnect_period

\* mutant of EventWait: the result of the wait is lost
EventWait_Never(flag) == FALSE

\* Event.wait(timeout) returns the flag
EventWait(flag) == flag

\* run(): was_stopped = self._to_stop.wait(timeout=self._reconnect_period)
WaitReturn ==
    /\ pc = "wait"
    /\ ~WaitBlocks(to_stop, waited)
    /\ was_stopped' = EventWait(to_stop)
    /\ pc' = "loop"
    /\ UNCHANGED << to_stop, end_marker, connVars, waited, exc, exc_src,
                    outcome, runner >>

\* one unit of time passes while the thread is blocked in recv() or wait()
Tick ==
    /\ \/ /\ pc = "recv"
          /\ sock_timeout > 0
          /\ now - recv_at < sock_timeout
          /\ now' = now + 1
          /\ UNCHANGED waited
       \/ /\ pc = "wait"
          /\ WaitBlocks(to_stop, waited)
          /\ waited' = waited + 1
          /\ UNCHANGED now
    /\ UNCHANGED << pc, to_stop, was_stopped, conn, end_marker, sent, pos,
                    recv_cache, data, start_time, sock_timeout, recv_at, got,
                    exc, exc_src, outcome, resumed, first_chunk_at, read_any,
                    split, hook_calls, handled, closes, runner >>

(* ------------------------------- Runner ------------------------------- *)
\* SIGTERM (raise_keyboard_interrupt) or Ctrl-C while Runner.run() is in
\* collect_forever(): the except KeyboardInterrupt clause logs and run()
\* goes on to its last line; the collector is not touched
Signal ==
    /\ runner = "collect_forever"
    /\ runner' = "interrupted"
    /\ UNCHANGED << pc, to_stop, was_stopped, end_marker, connVars, waited,
                    exc, exc_src, outcome >>

\* the collector thread has ended, by a return of run() or by an
\* exception that run() let through: join() returns, collect_forever()
\* returns and Runner.run() logs "Stopped collecting data"
JoinReturns ==
    /\ runner = "collect_forever"
    /\ pc \in { "done", "raised" }
    /\ runner' = "stopped"
    /\ UNCHANGED << pc, to_stop, was_stopped, end_marker, connVars, waited,
                    exc, exc_src, outcome >>

(* --------------------------- specification ---------------------------- *)
\* the steps of the collector thread
Thread ==
    \/ \E o \in ConnectOutcomes : Connect(o)
    \/ RunExit
    \/ \E o \in HookOutcomes : OnConnectionEstablished(o)
    \/ CheckStop
    \/ Receive
    \/ \E k \in 1..RecvSize : RecvChunk(k)
    \/ RecvTimeout
    \/ RecvWouldBlock
    \/ RecvClosed
    \/ RecvError
    \/ \E o \in HandlerOutcomes : OnDataReceived(o)
    \/ WaitReturn

Next == Thread \/ Stop \/ Tick \/ Signal \/ JoinReturns

Spec == Init /\ [][Next]_vars

\* the steps of the thread that wait for nothing but the scheduler, a
\* timeout of its own, or the end of a connect() call
Sched ==
    \/ \E o \in ConnectOutcomes : Connect(o)
    \/ RunExit
    \/ \E o \in HookOutcomes : OnConnectionEstablished(o)
    \/ CheckStop
    \/ Receive
    \/ RecvTimeout
    \/ RecvWouldBlock
    \/ \E o \in HandlerOutcomes : OnDataReceived(o)
    \/ WaitReturn

\* the thread is scheduled and time passes; nothing is assumed of stop()
\* nor of the producer
FairSpec == Spec /\ WF_vars(Sched) /\ WF_vars(Tick)

(* ------------------------------ claims -------------------------------- *)
\* no receive() call is running on the open connection
BetweenCalls == conn = "open" /\ pc \in { "check", "collect", "on_data" }

\* transport errors that are not an invalid address
TransientErrors == OSErrors \ { "herror", "gaierror" }

\* C1 (as claimed): for every end marker, the frames receive() returned on
\* a connection are the first payloads the producer sent, in order, and
\* after each return the receive cache is exactly what was read after the
\* whole end marker.
C1_AsClaimed ==
    /\ IsPrefix(got, sent)
    /\ BetweenCalls => Join(got, end_marker) \o recv_cache = Delivered

\* C2 (as claimed): run() never ends with a transient transport error that
\* connect(), on_connection_established or receive() raised.
C2_AsClaimed ==
    ~ ( /\ pc = "raised"
        /\ exc \in TransientErrors
        /\ exc_src \in { "connect", "hook", "peer", "timer" } )

\* C3 (as claimed): whenever on_data_received raised anything but
\* CorruptedDataError, run() has ended with that exception.
C3_AsClaimed ==
    outcome \in { "oserror", "apperror" } => (pc = "raised" /\ exc = outcome)

\* C4 (as claimed): a call of on_data_received that raises
\* CorruptedDataError, whatever the frame, leaves the connection open,
\* raises nothing out of _collect and goes on to the next loop check.
C4_AsClaimed ==
    [][ (pc = "on_data" /\ pc' # "on_data" /\ outcome' = "corrupted")
            => (pc' = "check" /\ conn' = "open" /\ exc' = exc) ]_vars

\* C5 (as claimed): no connect attempt starts while the stop flag is set:
\* from the top of the loop with the flag set, run() can only exit.
C5_AsClaimed ==
    [][ (pc = "loop" /\ to_stop) => pc' \in { "loop", "done" } ]_vars

\* C6: the stop flag is never cleared; once it is set run() eventually
\* ends (it returns, or an error of a hook propagates out of it); a stop
\* during the cooldown ends the wait with no more time passing, the wait
\* reports the stop, and run() then returns without another connect
\* attempt.
C6_StopEndsRun ==
    /\ [][ to_stop => to_stop' ]_vars
    /\ (to_stop ~> pc \in { "done", "raised" })
    /\ [][ (pc = "wait" /\ to_stop)
             => /\ pc' \in { "wait", "loop" }
                /\ waited' = waited
                /\ (pc' = "loop" => was_stopped') ]_vars
    /\ [][ (pc = "loop" /\ was_stopped) => pc' \in { "loop", "done" } ]_vars

\* C6 witness: run() returned after a stop that cut a cooldown short
C6_Witness ==
    pc = "done" /\ to_stop /\ was_stopped
        /\ waited > 0 /\ waited < reconnect_period

\* C7 (as claimed): between two receive() calls the cache never holds a
\* complete frame (so never bytes of more than one pending frame).
C7_AsClaimed ==
    BetweenCalls => Find(recv_cache, end_marker) = -1

\* C7 (amended): between two receive() calls the cache is the tail of the
\* bytes read so far that follows the returned frame and the two bytes
\* after it; with a two-byte end marker the returned frames, each with its
\* end marker, followed by the cache are exactly the bytes read so far.
C7_CacheIsUnreadTail ==
    BetweenCalls =>
        /\ IsSuffix(recv_cache, Delivered)
        /\ Len(end_marker) = 2 =>
               Join(got, end_marker) \o recv_cache = Delivered

\* C7 witness: the cache holds a complete frame between two calls
C7_Witness ==
    /\ BetweenCalls
    /\ pc = "on_data"
    /\ Len(end_marker) = 2
    /\ Find(recv_cache, end_marker) # -1

\* C8: in a receive() call that started with an empty cache, from the
\* arrival of the first chunk on, the thread is never blocked in recv() and
\* never returns a frame later than max_msg_delay after that arrival.
C8_FrameWithinMaxDelay ==
    (first_chunk_at # None /\ pc \in { "recv", "on_data" })
        => now - first_chunk_at <= max_msg_delay

\* C8 witness: a later chunk came some time after the first one, sooner
\* than the idle timeout, and the recv() that followed it has blocked for
\* what was left of max_msg_delay: it is about to time out
C8_Witness ==
    /\ pc = "recv"
    /\ first_chunk_at # None
    /\ recv_at > first_chunk_at
    /\ recv_at - first_chunk_at < recv_timeout
    /\ sock_timeout > 0
    /\ sock_timeout < max_msg_delay
    /\ now - recv_at = sock_timeout
    /\ now - first_chunk_at = max_msg_delay

\* C9 (as claimed): when a timer of receive() has run out, what receive()
\* raises is socket.timeout, and run() goes on to the cooldown.
C9_AsClaimed ==
    exc_src = "timer" => (exc = "timeout" /\ pc # "raised")

\* C10 (as claimed): a recv() of a call that started with an empty cache
\* and has no byte yet is bounded by the idle timeout; every recv() of a
\* call that started with a non-empty cache is bounded by max_msg_delay
\* from the start of the call.
C10_AsClaimed ==
    /\ (pc = "recv" /\ ~resumed /\ start_time = None) => now <= recv_timeout
    /\ (pc = "recv" /\ resumed) => now <= max_msg_delay

\* an invalid address: socket.herror or socket.gaierror
InvalidAddress == { "herror", "gaierror" }

\* a step of run() that makes a connect attempt
ConnectAttempt == pc = "loop" /\ ~was_stopped /\ pc' # "loop"

\* C11: the thread is in recv() only while the buffer holds no end marker;
\* the frame receive() returns holds none either; a receive() entered with
\* a cache that holds an end marker returns the first cached frame without
\* any read, and one entered with a cache that holds none starts its
\* buffer from the cached bytes, reading nothing again.
C11_ReadsOnlyWithoutMarker ==
    /\ [](pc = "recv" => Find(data, end_marker) = -1)
    /\ [](pc = "on_data" => Find(data, end_marker) = -1)
    /\ [](pc = "on_data" /\ ~read_any => resumed)
    /\ [][ (pc = "collect" /\ pc' # "collect") =>
              IF Find(recv_cache, end_marker) # -1
              THEN /\ pc' = "on_data"
                   /\ ~read_any'
                   /\ pos' = pos
                   /\ data' = SliceTo(recv_cache,
                                      Find(recv_cache, end_marker))
              ELSE /\ pc' = "recv"
                   /\ pos' = pos
                   /\ data' = recv_cache ]_vars

\* C11 witness: the second receive() returned the second frame, which one
\* read had brought along with the first, without reading
C11_Witness ==
    pc = "on_data" /\ ~read_any /\ Len(got) = 2 /\ got = sent

\* C12: after connect() failed with an invalid address run() has returned,
\* with no cooldown wait, no open connection and no call of
\* on_connection_established; once returned it makes no further step.
C12_InvalidAddressEndsRun ==
    /\ []( (exc_src = "connect" /\ exc \in InvalidAddress)
              => (pc = "done" /\ waited = 0 /\ conn # "open") )
    /\ [][ (ConnectAttempt /\ exc_src' = "connect"
                /\ exc' \in InvalidAddress)
              => (pc' = "done" /\ hook_calls' = hook_calls) ]_vars
    /\ [][ pc = "done" => pc' = "done" ]_vars

\* C12 witness: run() returned on an invalid address, no stop requested
C12_Witness ==
    /\ pc = "done"
    /\ exc = "gaierror"
    /\ exc_src = "connect"
    /\ ~to_stop
    /\ ~was_stopped

\* C13 (as claimed): once receive() has failed, by one of its timers or by
\* the peer, the connection is closed and run() is in the cooldown, back at
\* the top of its loop after it, or returned on a stop: it has not ended
\* with the failure.
C13_AsClaimed ==
    exc_src \in { "timer", "peer" }
        => (conn = "closed" /\ pc \in { "wait", "loop", "done" })

\* C14 (as claimed): once Runner.run() has taken a termination signal the
\* stop flag of the collector is set.
C14_AsClaimed ==
    runner = "interrupted" => to_stop

\* C15 (as claimed): when run() ended on an invalid address or with an
\* exception it let through, Runner.run() does not reach its normal
\* completion ("Stopped collecting data").
C15_AsClaimed ==
    ( \/ pc = "raised"
      \/ pc = "done" /\ exc_src = "connect" /\ exc \in InvalidAddress )
        => runner # "stopped"

\* C16: on_connection_established has not been called when the connection
\* is just made (nothing received yet) and has been called once from then
\* on, also when the connection is closed; the frames passed to
\* on_data_received are the frames receive() returned, each once, the one
\* just returned being the next to pass.
C16_HooksOncePerEvent ==
    /\ pc = "established"
          => (conn = "open" /\ hook_calls = 0 /\ pos = 0 /\ got = <<>>
                /\ handled = <<>>)
    /\ pc \in { "check", "collect", "recv", "on_data" }
          => (conn = "open" /\ hook_calls = 1)
    /\ conn = "closed" => hook_calls = 1
    /\ pc \in { "check", "collect", "recv" } => handled = got
    /\ pc = "on_data" => got = Append(handled, data)

\* C16 witness: two frames were received and both were handled
C16_Witness ==
    pc = "check" /\ hook_calls = 1 /\ Len(handled) = 2 /\ handled = got

\* C17: an open connection has not been closed and a closed one has been
\* closed once; while run() is at the top of its loop, in the cooldown or
\* ended (by a return or an exception) no connection is open, so a connect
\* attempt never starts with the previous connection open.
C17_OneConnectionClosedOnce ==
    /\ [](conn = "open" => closes = 0)
    /\ [](conn = "closed" => closes = 1)
    /\ [](pc \in { "loop", "wait", "done", "raised" } => conn # "open")
    /\ [][ ConnectAttempt => conn # "open" ]_vars

\* C17 witness: an error of on_data_received went out of run() and the
\* connection was closed, once
C17_Witness ==
    /\ pc = "raised"
    /\ exc_src = "handler"
    /\ conn = "closed"
    /\ closes = 1

\* C18: with the default end marker, when the end marker that ends a
\* frame came in two chunks, receive() returns the payload the producer
\* sent, with no byte of the end marker in it, and the cache is exactly
\* what was read after the end marker.
C18_SplitMarkerFound ==
    (pc = "on_data" /\ split /\ end_marker = DefaultEndMarker) =>
        /\ Len(got) <= Len(sent)
        /\ data = sent[Len(got)]
        /\ \A i \in 1..Len(data) : data[i] \notin { "r", "n" }
        /\ recv_cache = SliceFrom(Delivered, Len(Join(got, end_marker)))

\* C18 witness: the chunk that completed the end marker also brought
\* bytes of the next frame
C18_Witness ==
    /\ pc = "on_data"
    /\ split
    /\ end_marker = DefaultEndMarker
    /\ recv_cache # <<>>

\* C19: while receive() is in recv() the cache is empty, and a failure of
\* recv() or of the timeout update leaves it empty: the bytes taken from
\* the cache and the bytes read in the call are gone.
C19_FailedReceiveEmptiesCache ==
    /\ [](pc = "recv" => recv_cache = <<>>)
    /\ [](exc_src \in { "timer", "peer" } => recv_cache = <<>>)
    /\ [][ (pc = "recv" /\ pc' \notin { "recv", "on_data" })
              => recv_cache' = <<>> ]_vars

\* C19 witness: receive() failed on the non-blocking recv() that follows a
\* chunk read at the end of max_msg_delay, so bytes had been read in the
\* failed call; the cache is empty
C19_Witness ==
    /\ pc = "wait"
    /\ exc = "blockingio"
    /\ exc_src = "timer"
    /\ conn = "closed"
    /\ recv_cache = <<>>

\* C20 (as claimed): on an open connection, whenever no receive() call is
\* in progress, the timeout of the socket is recv_timeout.
C20_AsClaimed ==
    (conn = "open" /\ pc # "recv") => sock_timeout = recv_timeout
====
